---- MODULE Spec2Model ----
(***************************************************************************)
(* A model of the element text read/write protocol                         *)
(* (src/src/platform/windows/element.rs) and of the query engine           *)
(* (src/src/core.rs, src/src/platform/windows/window.rs,                   *)
(* src/src/platform/windows/automation.rs) of ui_interaction.              *)
(*                                                                         *)
(* Text is a sequence of characters.  A character is a one-letter name:    *)
(* "a" a plain ASCII letter, "SP" a space, "NL" the line feed '\n', "CR"   *)
(* the carriage return '\r' and "E2" a character of two bytes in UTF-8.    *)
(***************************************************************************)
EXTENDS Integers, Sequences, FiniteSets, TLC

VARIABLES
    elem,       \* the element: [ctid, hasValue, hasText, crlf]
    content,    \* the text the target application holds for the element
    caret,      \* the caret, 0..Len(content): characters before the caret
    pc,         \* position of the running set_text / append_text call
    call,       \* the call: [op, text, position]
    result,     \* what the call returned: "none" (running), "Ok", "Err"
    log,        \* the OS calls the call has made so far, in order
    local,      \* the call's local variables
    hist,       \* history of the call, for the properties
    tree,       \* query engine: the live element tree
    query,      \* query engine: the query of the last operation
    qres,       \* query engine: the last operation and what it returned
    lock,       \* threads: the thread that holds the automation lock, or 0
    thr,        \* threads: each thread's operation and position in it
    shared,     \* threads: the text of the element the threads write to
    arg,        \* single operations: the operation and what it is applied to
    ret         \* single operations: what the operation returned

textVars == <<elem, content, caret, pc, call, result, log, local, hist>>
queryVars == <<tree, query, qres>>
threadVars == <<lock, thr, shared>>
callVars == <<arg, ret>>
vars == <<elem, content, caret, pc, call, result, log, local, hist, tree, query, qres,
          lock, thr, shared, arg, ret>>

\* what the operations of one part of the model leave alone
exceptText == <<queryVars, threadVars, callVars>>
exceptQuery == <<textVars, threadVars, callVars>>
exceptThread == <<textVars, queryVars, callVars>>
exceptCall == <<textVars, queryVars, threadVars>>

-----------------------------------------------------------------------------
(* Bounds *)

\* longest target string of set_text / appended string of append_text
MaxText == 3
\* longest text the element holds before the call
MaxInit == 1

-----------------------------------------------------------------------------
(* Text helpers *)

\* characters of the target strings of set_text
Chars == {"a", "SP", "NL"}
\* characters of the strings append_text appends
AppendChars == {"a", "SP"}
\* characters of the text the element holds before the call
InitChars == {"a"}

\* all strings over cs with at most n characters
RECURSIVE StringsUpTo(_, _)
StringsUpTo(cs, n) ==
    IF n = 0 THEN {<<>>}
    ELSE LET shorter == StringsUpTo(cs, n - 1)
         IN  shorter \cup {Append(s, c) : s \in shorter, c \in cs}

\* the target strings of set_text, the strings append_text appends and the
\* texts the element holds before the call
TargetTexts == StringsUpTo(Chars, MaxText)
AppendTexts == StringsUpTo(AppendChars, MaxText)
InitTexts == StringsUpTo(InitChars, MaxInit)

\* the characters of a string
Range(s) == {s[i] : i \in DOMAIN s}

\* char::is_whitespace, on the characters of the model
IsWhitespace(c) == c \in {"SP", "NL", "CR"}

\* str::split_whitespace: the maximal runs of non-whitespace characters
RECURSIVE SplitFrom(_, _, _)
SplitFrom(s, i, cur) ==
    IF i > Len(s) THEN (IF cur = <<>> THEN <<>> ELSE <<cur>>)
    ELSE IF IsWhitespace(s[i])
         THEN (IF cur = <<>> THEN <<>> ELSE <<cur>>) \o SplitFrom(s, i + 1, <<>>)
         ELSE SplitFrom(s, i + 1, Append(cur, s[i]))

SplitWhitespace(s) == SplitFrom(s, 1, <<>>)

\* s with the string d inserted after the first k characters
InsertAt(s, k, d) == SubSeq(s, 1, k) \o d \o SubSeq(s, k + 1, Len(s))

\* s without its p-th character
DropAt(s, p) == SubSeq(s, 1, p - 1) \o SubSeq(s, p + 1, Len(s))

\* The text as the element reports it: an element that keeps Windows line
\* endings reports every line break as "\r\n".
RECURSIVE ReadBack(_, _)
ReadBack(crlf, s) ==
    IF s = <<>> THEN <<>>
    ELSE (IF crlf /\ Head(s) = "NL" THEN <<"CR", "NL">> ELSE <<Head(s)>>)
         \o ReadBack(crlf, Tail(s))

\* str::replace("\r\n", "\n")
RECURSIVE NormalizeNewlines(_)
NormalizeNewlines(s) ==
    IF s = <<>> THEN <<>>
    ELSE IF Len(s) >= 2 /\ s[1] = "CR" /\ s[2] = "NL"
         THEN <<"NL">> \o NormalizeNewlines(Tail(Tail(s)))
         ELSE <<Head(s)>> \o NormalizeNewlines(Tail(s))

-----------------------------------------------------------------------------
(* The element (WindowsElement) *)

\* OS control-type ids of the model; "Unrecognised" is an id that
\* ControlType::try_from rejects.
ControlTypeIds == {"Edit", "Button", "Pane", "Custom", "Unrecognised"}

Element(ctid, hasValue, hasText, crlf) ==
    [ctid |-> ctid, hasValue |-> hasValue, hasText |-> hasText, crlf |-> crlf]

\* The elements of the model: control type, value pattern, text pattern, and
\* whether the application reports line breaks as "\r\n".
Elements ==
    { Element("Edit", TRUE, TRUE, FALSE),          \* single-line edit
      Element("Edit", TRUE, FALSE, TRUE),          \* edit reporting "\r\n"
      Element("Edit", FALSE, FALSE, FALSE),        \* text cannot be read back
      Element("Pane", FALSE, TRUE, FALSE),         \* pane with a text pattern
      Element("Pane", FALSE, FALSE, FALSE),        \* plain pane
      Element("Custom", TRUE, FALSE, FALSE),       \* custom with a value
      Element("Custom", FALSE, TRUE, FALSE),       \* custom with text only
      Element("Unrecognised", TRUE, FALSE, FALSE), \* unknown id, with a value
      Element("Button", TRUE, TRUE, FALSE) }       \* button

\* WindowsElement::get_control_type: unwrap_or(ControlType::Custom)
get_control_type(e) == IF e.ctid = "Unrecognised" THEN "Custom" ELSE e.ctid

\* a classification that admits every control type
AdmitEveryControl(e) == TRUE

\* WindowsElement::is_input_control
is_input_control(e) ==
    LET control_type == get_control_type(e)
    IN  CASE control_type \in {"Edit", "ComboBox", "CheckBox", "RadioButton",
                               "Slider", "Text", "Document"} -> TRUE
          [] control_type = "Pane" -> e.hasValue \/ e.hasText
          [] control_type = "Custom" -> e.hasValue
          [] OTHER -> FALSE

\* WindowsElement::get_text on an element whose application holds the text s
get_text(e, s) ==
    LET value == ReadBack(e.crlf, s)
    IN  IF e.hasValue /\ value # <<>> THEN value
        ELSE IF e.hasText /\ value # <<>> THEN value
        ELSE <<>>

-----------------------------------------------------------------------------
(* The OS side: what a key sequence or a text injection does to the text *)

\* An OS call as the log records it; at is the step of the call that made it.
KeyEvent(keys) == [op |-> "send_keys", keys |-> keys, text |-> <<>>, at |-> pc]
TextEvent(t) == [op |-> "send_text", keys |-> "", text |-> t, at |-> pc]
OtherEvent(op) == [op |-> op, keys |-> "", text |-> <<>>, at |-> pc]

\* What a text injection that returns Ok can deliver: the text, or the text
\* with one character lost.
Deliveries(t) == {t} \cup {DropAt(t, p) : p \in 1..Len(t)}

\* The caret position the END key moves to: the end of the current line.
RECURSIVE EndOfLine(_, _)
EndOfLine(s, k) ==
    IF k >= Len(s) THEN Len(s)
    ELSE IF s[k + 1] = "NL" THEN k
    ELSE EndOfLine(s, k + 1)

\* The text and caret after a key sequence that the application received.
KeysContent(keys, s, k) ==
    CASE keys = "{Ctrl}a{Delete}" -> <<>>
      [] keys = "{BACKSPACE}" -> IF k > 0 THEN DropAt(s, k) ELSE s
      [] keys = "{shift}{enter}" -> InsertAt(s, k, <<"NL">>)
      [] OTHER -> s

KeysCaret(keys, s, k) ==
    CASE keys = "{Ctrl}a{Delete}" -> 0
      [] keys = "{BACKSPACE}" -> IF k > 0 THEN k - 1 ELSE 0
      [] keys = "{shift}{enter}" -> k + 1
      [] keys = "{END}" -> EndOfLine(s, k)
      [] keys = "{CTRL}{END}" -> Len(s)
      [] OTHER -> k

\* element.send_keys(keys): logged; acts on the text when ok
SendKeys(keys, ok) ==
    /\ log' = Append(log, KeyEvent(keys))
    /\ content' = IF ok THEN KeysContent(keys, content, caret) ELSE content
    /\ caret' = IF ok THEN KeysCaret(keys, content, caret) ELSE caret

\* element.send_text(t) that returned Ok and delivered d
SendText(t, d) ==
    /\ log' = Append(log, TextEvent(t))
    /\ content' = InsertAt(content, caret, d)
    /\ caret' = caret + Len(d)

\* element.send_text(t) that returned Err
SendTextErr(t) ==
    /\ log' = Append(log, TextEvent(t))
    /\ UNCHANGED <<content, caret>>

\* self.get_text().unwrap_or_default(): the text read back, or the empty
\* string when the read failed
get_text_or_default(ok) == IF ok THEN get_text(elem, content) ELSE <<>>

NoLocal == [text_before |-> <<>>, k |-> 0, i |-> 0, j |-> 0]
\* History of a call: the text and caret when it started; whether it ended
\* after the bulk attempt ("bulk") or ran the correction pass ("corrected");
\* whether the bulk injection was delivered unaltered; and whether every key
\* sequence acted, every later injection that returned Ok was delivered
\* unaltered and every read of the text succeeded.
NoHist == [content0 |-> <<>>, caret0 |-> 0, path |-> "none",
           bulkFaithful |-> FALSE, faithful |-> TRUE]

-----------------------------------------------------------------------------
(* WindowsElement::set_text *)

Running(at) == pc = at /\ result = "none"

Return(r, path) ==
    /\ pc' = "done"
    /\ result' = r
    /\ hist' = [hist EXCEPT !.path = path]
    /\ local' = NoLocal

\* where the word loop goes after word i of n: the space between words, or
\* past the loop
AfterWord(i, n, atSpace, atEnd) == IF i < n THEN atSpace ELSE atEnd

\* set_text(text) is called: the classification gate
SetTextCall(text) ==
    /\ pc = "idle"
    /\ call' = [op |-> "set_text", text |-> text, position |-> "none"]
    /\ hist' = [NoHist EXCEPT !.content0 = content, !.caret0 = caret]
    /\ IF ~is_input_control(elem)
       THEN /\ pc' = "done"
            /\ result' = "Err"
       ELSE /\ pc' = "st_select"
            /\ result' = "none"
    /\ UNCHANGED <<elem, content, caret, log, local>>
    /\ UNCHANGED exceptText

\* best-effort selection of the document range through the text pattern
StSelect ==
    /\ Running("st_select")
    /\ log' = IF elem.hasText THEN Append(log, OtherEvent("select")) ELSE log
    /\ pc' = "st_clear"
    /\ UNCHANGED <<elem, content, caret, call, result, local, hist>>
    /\ UNCHANGED exceptText

\* clear by Ctrl+A, Delete; a failure is only logged
StClear ==
    /\ Running("st_clear")
    /\ \E ok \in BOOLEAN :
         /\ SendKeys("{Ctrl}a{Delete}", ok)
         /\ hist' = [hist EXCEPT !.faithful = @ /\ ok]
    /\ pc' = "st_bulk"
    /\ UNCHANGED <<elem, call, result, local>>
    /\ UNCHANGED exceptText

\* the bulk attempt: the whole text in one injection; Err aborts the call
StBulk ==
    /\ Running("st_bulk")
    /\ \/ /\ SendTextErr(call.text)
          /\ Return("Err", "none")
       \/ \E d \in Deliveries(call.text) :
            /\ SendText(call.text, d)
            /\ pc' = "st_verify"
            /\ hist' = [hist EXCEPT !.bulkFaithful = (d = call.text)]
            /\ UNCHANGED <<result, local>>
    /\ UNCHANGED <<elem, call>>
    /\ UNCHANGED exceptText

\* read the text back and compare it with the target
StVerify ==
    /\ Running("st_verify")
    /\ \E ok \in BOOLEAN :
         /\ log' = Append(log, OtherEvent("get_text"))
         /\ IF get_text_or_default(ok) = call.text
            THEN /\ pc' = "done"
                 /\ result' = "Ok"
                 /\ hist' = [hist EXCEPT !.path = "bulk", !.faithful = @ /\ ok]
                 /\ local' = NoLocal
            ELSE /\ pc' = "st_clear2"
                 /\ hist' = [hist EXCEPT !.faithful = @ /\ ok]
                 /\ UNCHANGED <<result, local>>
    /\ UNCHANGED <<elem, content, caret, call>>
    /\ UNCHANGED exceptText

\* a correction pass that starts without clearing
StCorrectWithoutClear ==
    /\ Running("st_clear2")
    /\ hist' = [hist EXCEPT !.path = "corrected"]
    /\ IF SplitWhitespace(call.text) = <<>>
       THEN pc' = "st_final" /\ local' = NoLocal
       ELSE pc' = "st_word" /\ local' = [NoLocal EXCEPT !.i = 1]
    /\ UNCHANGED <<elem, content, caret, log, call, result>>
    /\ UNCHANGED exceptText

\* the correction pass starts: clear again, split the target into words
StClear2 ==
    /\ Running("st_clear2")
    /\ \E ok \in BOOLEAN :
         /\ SendKeys("{Ctrl}a{Delete}", ok)
         /\ hist' = [hist EXCEPT !.path = "corrected", !.faithful = @ /\ ok]
    /\ IF SplitWhitespace(call.text) = <<>>
       THEN pc' = "st_final" /\ local' = NoLocal
       ELSE pc' = "st_word" /\ local' = [NoLocal EXCEPT !.i = 1]
    /\ UNCHANGED <<elem, call, result>>
    /\ UNCHANGED exceptText

\* one word of the correction pass; Err falls back to its characters
StWord ==
    /\ Running("st_word")
    /\ LET words == SplitWhitespace(call.text)
           word == words[local.i]
       IN  \/ /\ SendTextErr(word)
              /\ pc' = "st_char"
              /\ local' = [local EXCEPT !.j = 1]
              /\ UNCHANGED hist
           \/ \E d \in Deliveries(word) :
                /\ SendText(word, d)
                /\ pc' = AfterWord(local.i, Len(words), "st_space", "st_final")
                /\ hist' = [hist EXCEPT !.faithful = @ /\ d = word]
                /\ UNCHANGED local
    /\ UNCHANGED <<elem, call, result>>
    /\ UNCHANGED exceptText

\* one character of a word whose injection failed
StChar ==
    /\ Running("st_char")
    /\ LET words == SplitWhitespace(call.text)
           word == words[local.i]
           ch == word[local.j]
       IN  /\ \E ok \in BOOLEAN :
                /\ IF ch = "NL"
                   THEN SendKeys("{shift}{enter}", ok)
                   ELSE IF ok THEN SendText(<<ch>>, <<ch>>)
                              ELSE SendTextErr(<<ch>>)
                /\ hist' = [hist EXCEPT !.faithful = @ /\ ok]
           /\ IF local.j < Len(word)
              THEN pc' = "st_char" /\ local' = [local EXCEPT !.j = @ + 1]
              ELSE /\ pc' = AfterWord(local.i, Len(words), "st_space", "st_final")
                   /\ local' = [local EXCEPT !.j = 0]
    /\ UNCHANGED <<elem, call, result>>
    /\ UNCHANGED exceptText

\* the single space between two words
StSpace ==
    /\ Running("st_space")
    /\ \E ok \in BOOLEAN :
         /\ IF ok THEN SendText(<<"SP">>, <<"SP">>) ELSE SendTextErr(<<"SP">>)
         /\ hist' = [hist EXCEPT !.faithful = @ /\ ok]
    /\ pc' = "st_word"
    /\ local' = [local EXCEPT !.i = @ + 1]
    /\ UNCHANGED <<elem, call, result>>
    /\ UNCHANGED exceptText

\* a final verification that starts the correction pass again on a mismatch
StFinalRetry ==
    /\ Running("st_final")
    /\ log' = Append(log, OtherEvent("get_text"))
    /\ IF get_text(elem, content) = call.text
       THEN Return("Ok", "corrected")
       ELSE /\ pc' = "st_clear2"
            /\ UNCHANGED <<result, local, hist>>
    /\ UNCHANGED <<elem, content, caret, call>>
    /\ UNCHANGED exceptText

\* the final verification: a mismatch or a failed read is only logged
StFinal ==
    /\ Running("st_final")
    /\ \E ok \in BOOLEAN :
         /\ log' = Append(log, OtherEvent("get_text"))
         /\ pc' = "done"
         /\ result' = "Ok"
         /\ hist' = [hist EXCEPT !.path = "corrected", !.faithful = @ /\ ok]
         /\ local' = NoLocal
    /\ UNCHANGED <<elem, content, caret, call>>
    /\ UNCHANGED exceptText

set_text ==
    \/ pc = "idle" /\ \E text \in TargetTexts : SetTextCall(text)
    \/ StSelect
    \/ StClear
    \/ StBulk
    \/ StVerify
    \/ StClear2
    \/ StWord
    \/ StChar
    \/ StSpace
    \/ StFinal

-----------------------------------------------------------------------------
(* WindowsElement::append_text *)

Positions == {"CurrentCursor", "EndOfLine", "EndOfText"}

\* bytes of a character in UTF-8 (str::len counts bytes)
UTF8Len(c) == IF c = "E2" THEN 2 ELSE 1

RECURSIVE ByteLen(_)
ByteLen(s) == IF s = <<>> THEN 0 ELSE UTF8Len(Head(s)) + ByteLen(Tail(s))

\* &s[n..]: the characters of s from byte offset n on; <<"PANIC">> when n is
\* not a character boundary of s
RECURSIVE SliceFrom(_, _)
SliceFrom(s, n) ==
    IF n = 0 THEN s
    ELSE IF s = <<>> \/ UTF8Len(Head(s)) > n THEN <<"PANIC">>
    ELSE SliceFrom(Tail(s), n - UTF8Len(Head(s)))

\* what append_text takes for the appended text
actually_appended(text_before, text_after) ==
    IF ByteLen(text_after) > ByteLen(text_before)
    THEN SliceFrom(text_after, ByteLen(text_before))
    ELSE <<>>

\* append_text(text, position) is called: the classification gate
AppendTextCall(text, position) ==
    /\ pc = "idle"
    /\ call' = [op |-> "append_text", text |-> text, position |-> position]
    /\ hist' = [NoHist EXCEPT !.content0 = content, !.caret0 = caret]
    /\ IF ~is_input_control(elem)
       THEN /\ pc' = "done"
            /\ result' = "Err"
       ELSE /\ pc' = "ap_focus"
            /\ result' = "none"
    /\ UNCHANGED <<elem, content, caret, log, local>>
    /\ UNCHANGED exceptText

\* best-effort focus
ApFocus ==
    /\ Running("ap_focus")
    /\ log' = Append(log, OtherEvent("set_focus"))
    /\ pc' = "ap_position"
    /\ UNCHANGED <<elem, content, caret, call, result, local, hist>>
    /\ UNCHANGED exceptText

\* move the caret as the position asks; a failure is only logged
ApPosition ==
    /\ Running("ap_position")
    /\ CASE call.position = "CurrentCursor" -> UNCHANGED <<log, content, caret, hist>>
         [] call.position = "EndOfLine" ->
                \E ok \in BOOLEAN :
                  /\ SendKeys("{END}", ok)
                  /\ hist' = [hist EXCEPT !.faithful = @ /\ ok]
         [] call.position = "EndOfText" ->
                \E ok \in BOOLEAN :
                  /\ SendKeys("{CTRL}{END}", ok)
                  /\ hist' = [hist EXCEPT !.faithful = @ /\ ok]
    /\ pc' = "ap_before"
    /\ UNCHANGED <<elem, call, result, local>>
    /\ UNCHANGED exceptText

\* the baseline: the text before the injection
ApBefore ==
    /\ Running("ap_before")
    /\ \E ok \in BOOLEAN :
         /\ log' = Append(log, OtherEvent("get_text"))
         /\ local' = [local EXCEPT !.text_before = get_text_or_default(ok)]
         /\ hist' = [hist EXCEPT !.faithful = @ /\ ok]
    /\ pc' = "ap_bulk"
    /\ UNCHANGED <<elem, content, caret, call, result>>
    /\ UNCHANGED exceptText

\* the bulk attempt; Err aborts the call
ApBulk ==
    /\ Running("ap_bulk")
    /\ \/ /\ SendTextErr(call.text)
          /\ Return("Err", "none")
       \/ \E d \in Deliveries(call.text) :
            /\ SendText(call.text, d)
            /\ pc' = "ap_verify"
            /\ hist' = [hist EXCEPT !.bulkFaithful = (d = call.text)]
            /\ UNCHANGED <<result, local>>
    /\ UNCHANGED <<elem, call>>
    /\ UNCHANGED exceptText

\* read the text back, cut it at the length of the baseline and compare the
\* rest with the appended string
ApVerify ==
    /\ Running("ap_verify")
    /\ \E ok \in BOOLEAN :
         LET appended == actually_appended(local.text_before, get_text_or_default(ok))
             words == SplitWhitespace(call.text)
         IN  /\ log' = Append(log, OtherEvent("get_text"))
             /\ IF appended = <<"PANIC">>
                THEN /\ pc' = "done"
                     /\ result' = "Panic"
                     /\ hist' = [hist EXCEPT !.faithful = @ /\ ok]
                     /\ local' = NoLocal
                ELSE IF appended = call.text
                THEN /\ pc' = "done"
                     /\ result' = "Ok"
                     /\ hist' = [hist EXCEPT !.path = "bulk", !.faithful = @ /\ ok]
                     /\ local' = NoLocal
                ELSE /\ hist' = [hist EXCEPT !.path = "corrected", !.faithful = @ /\ ok]
                     /\ result' = result
                     /\ IF Len(appended) > 0
                        THEN pc' = "ap_backspace"
                             /\ local' = [NoLocal EXCEPT !.k = Len(appended)]
                        ELSE IF words = <<>>
                        THEN pc' = "ap_end" /\ local' = NoLocal
                        ELSE pc' = "ap_word" /\ local' = [NoLocal EXCEPT !.i = 1]
    /\ UNCHANGED <<elem, content, caret, call>>
    /\ UNCHANGED exceptText

\* one backspace per character taken for appended; a failure ends the loop
ApBackspace ==
    /\ Running("ap_backspace")
    /\ \E ok \in BOOLEAN :
         /\ SendKeys("{BACKSPACE}", ok)
         /\ hist' = [hist EXCEPT !.faithful = @ /\ ok]
         /\ IF ok /\ local.k > 1
            THEN pc' = "ap_backspace" /\ local' = [local EXCEPT !.k = @ - 1]
            ELSE IF SplitWhitespace(call.text) = <<>>
            THEN pc' = "ap_end" /\ local' = NoLocal
            ELSE pc' = "ap_word" /\ local' = [NoLocal EXCEPT !.i = 1]
    /\ UNCHANGED <<elem, call, result>>
    /\ UNCHANGED exceptText

\* one word of the correction pass; Err falls back to its characters
ApWord ==
    /\ Running("ap_word")
    /\ LET words == SplitWhitespace(call.text)
           word == words[local.i]
       IN  \/ /\ SendTextErr(word)
              /\ pc' = "ap_char"
              /\ local' = [local EXCEPT !.j = 1]
              /\ UNCHANGED hist
           \/ \E d \in Deliveries(word) :
                /\ SendText(word, d)
                /\ pc' = AfterWord(local.i, Len(words), "ap_space", "ap_end")
                /\ hist' = [hist EXCEPT !.faithful = @ /\ d = word]
                /\ UNCHANGED local
    /\ UNCHANGED <<elem, call, result>>
    /\ UNCHANGED exceptText

\* one character of a word whose injection failed
ApChar ==
    /\ Running("ap_char")
    /\ LET words == SplitWhitespace(call.text)
           word == words[local.i]
           ch == word[local.j]
       IN  /\ \E ok \in BOOLEAN :
                /\ IF ok THEN SendText(<<ch>>, <<ch>>) ELSE SendTextErr(<<ch>>)
                /\ hist' = [hist EXCEPT !.faithful = @ /\ ok]
           /\ IF local.j < Len(word)
              THEN pc' = "ap_char" /\ local' = [local EXCEPT !.j = @ + 1]
              ELSE /\ pc' = AfterWord(local.i, Len(words), "ap_space", "ap_end")
                   /\ local' = [local EXCEPT !.j = 0]
    /\ UNCHANGED <<elem, call, result>>
    /\ UNCHANGED exceptText

\* the single space between two words
ApSpace ==
    /\ Running("ap_space")
    /\ \E ok \in BOOLEAN :
         /\ IF ok THEN SendText(<<"SP">>, <<"SP">>) ELSE SendTextErr(<<"SP">>)
         /\ hist' = [hist EXCEPT !.faithful = @ /\ ok]
    /\ pc' = "ap_word"
    /\ local' = [local EXCEPT !.i = @ + 1]
    /\ UNCHANGED <<elem, call, result>>
    /\ UNCHANGED exceptText

\* the correction pass is over: Ok without a further read
ApEnd ==
    /\ Running("ap_end")
    /\ Return("Ok", "corrected")
    /\ UNCHANGED <<elem, content, caret, call, log>>
    /\ UNCHANGED exceptText

append_text ==
    \/ pc = "idle" /\ \E text \in AppendTexts, position \in Positions :
                        AppendTextCall(text, position)
    \/ ApFocus
    \/ ApPosition
    \/ ApBefore
    \/ ApBulk
    \/ ApVerify
    \/ ApBackspace
    \/ ApWord
    \/ ApChar
    \/ ApSpace
    \/ ApEnd

-----------------------------------------------------------------------------
(* The text protocol as a state machine: one element, one call *)

\* no tree, no query and no outcome: the query engine is not in use
NoTree == [kinds |-> <<>>, parent |-> <<>>]
NoQuery == [kind |-> "none", a |-> "", b |-> "", qs |-> <<>>]
NoQres == [op |-> "none", walker |-> FALSE, val |-> "none", list |-> <<>>, evals |-> <<>>]

\* the threads of the client program
Threads == {1, 2}
\* no thread has started an operation
NoThr == [t \in Threads |-> [pc |-> "idle", op |-> "none", result |-> "none"]]
\* the threads are not in use
ThreadsIdle == lock = 0 /\ thr = NoThr /\ shared = <<>>

\* no single operation has been applied
NoArg == [op |-> "none"]
NoRet == [done |-> FALSE, ok |-> FALSE, val |-> <<>>]
CallsIdle == arg = NoArg /\ ret = NoRet

\* the text protocol and the query engine are not in use
TextIdle ==
    /\ elem = Element("Edit", TRUE, TRUE, FALSE)
    /\ content = <<>>
    /\ caret = 0
    /\ pc = "idle"
    /\ call = [op |-> "none", text |-> <<>>, position |-> "none"]
    /\ result = "none"
    /\ log = <<>>
    /\ local = NoLocal
    /\ hist = NoHist
QueryIdle == tree = NoTree /\ query = NoQuery /\ qres = NoQres

InitText ==
    /\ elem \in Elements
    /\ content \in InitTexts
    /\ caret \in 0..Len(content)
    /\ pc = "idle"
    /\ call = [op |-> "none", text |-> <<>>, position |-> "none"]
    /\ result = "none"
    /\ log = <<>>
    /\ local = NoLocal
    /\ hist = NoHist
    /\ tree = NoTree
    /\ query = NoQuery
    /\ qres = NoQres
    /\ ThreadsIdle
    /\ CallsIdle

NextText == set_text \/ append_text

SpecText == InitText /\ [][NextText]_vars

\* append_text on an element whose text holds multi-byte characters: "E2" is
\* a character of two bytes in UTF-8
WideChars == {"a", "E2"}
WideTexts == StringsUpTo(WideChars, MaxInit)
\* an edit whose text can be read back, and one whose text cannot
WideElements == {Element("Edit", TRUE, TRUE, FALSE), Element("Edit", FALSE, FALSE, FALSE)}

InitAppend ==
    /\ elem \in WideElements
    /\ content \in WideTexts
    /\ caret \in 0..Len(content)
    /\ pc = "idle"
    /\ call = [op |-> "none", text |-> <<>>, position |-> "none"]
    /\ result = "none"
    /\ log = <<>>
    /\ local = NoLocal
    /\ hist = NoHist
    /\ tree = NoTree
    /\ query = NoQuery
    /\ qres = NoQres
    /\ ThreadsIdle
    /\ CallsIdle

NextAppend == append_text

SpecAppend == InitAppend /\ [][NextAppend]_vars

-----------------------------------------------------------------------------
(* The query engine: element trees *)

\* most elements of a tree, the root included
MaxNodes == 3
\* most sub-queries of an And or an Or
MaxSub == 2

\* An element of a tree: its OS control-type id and its accessible name.
Node(ctid, name) == [ctid |-> ctid, name |-> name]

NodeKinds ==
    { Node("Edit", "x"), Node("Custom", "x"), Node("Custom", "y"),
      Node("Unrecognised", "y") }

\* parent[i] is the parent of element i; element 1 is the root; the children
\* of an element are in OS sibling order by increasing number
ParentMaps(n) ==
    {p \in [1..n -> 0..n] : p[1] = 0 /\ \A i \in 2..n : p[i] \in 1..(i - 1)}

Trees ==
    UNION { [kinds : [1..n -> NodeKinds], parent : ParentMaps(n)] : n \in 1..MaxNodes }

Nodes(t) == DOMAIN t.kinds

\* 1, 2, ..., n
RECURSIVE UpTo(_)
UpTo(n) == IF n = 0 THEN <<>> ELSE Append(UpTo(n - 1), n)

\* the direct children of element i, in sibling order
ChildNodes(t, i) ==
    LET IsChild(j) == t.parent[j] = i
    IN  SelectSeq(UpTo(Len(t.kinds)), IsChild)

\* the elements below i, depth first, in pre-order (TreeScope::Descendants)
RECURSIVE DescendantNodes(_, _)
RECURSIVE DescendantsOfAll(_, _)
DescendantsOfAll(t, cs) ==
    IF cs = <<>> THEN <<>>
    ELSE <<Head(cs)>> \o DescendantNodes(t, Head(cs)) \o DescendantsOfAll(t, Tail(cs))

DescendantNodes(t, i) == DescendantsOfAll(t, ChildNodes(t, i))

\* A UIElement handle (WindowsElement): the element and whether the handle
\* carries a tree walker.
Handle(i, walker) == [node |-> i, walker |-> walker]

\* a program that assigns the thread-local AUTOMATION
AutomationAssigned == TRUE

\* the thread-local AUTOMATION holds an instance: it starts as None and
\* nothing assigns it
AutomationInstalled == FALSE

Ok(v) == [ok |-> TRUE, val |-> v]
Err == [ok |-> FALSE, val |-> <<>>]

\* WindowsElement::get_name
get_name(t, e) == t.kinds[e.node].name

\* WindowsElement::get_type
get_type(t, e) == get_control_type(t.kinds[e.node])

\* WindowsElement::get_properties, as the set of its (key, value) entries;
\* control_type is left out for an id that ControlType::try_from rejects
get_properties(t, e) ==
    {<<"name", t.kinds[e.node].name>>}
        \cup (IF t.kinds[e.node].ctid = "Unrecognised" THEN {}
              ELSE {<<"control_type", t.kinds[e.node].ctid>>})

\* WindowsElement::get_children
get_children(t, e) ==
    LET nodes == ChildNodes(t, e.node)
        children == [k \in 1..Len(nodes) |-> Handle(nodes[k], e.walker)]
    IN  IF ~e.walker /\ ~AutomationInstalled THEN Err
        ELSE IF children = <<>> THEN Err
        ELSE Ok(children)

-----------------------------------------------------------------------------
(* The query engine: UIQuery *)

Query(kind, a, b, qs) == [kind |-> kind, a |-> a, b |-> b, qs |-> qs]
ByName(name) == Query("ByName", name, "", <<>>)
ByType(control_type) == Query("ByType", control_type, "", <<>>)
ByProperty(key, value) == Query("ByProperty", key, value, <<>>)
And(qs) == Query("And", "", "", qs)
Or(qs) == Query("Or", "", "", qs)
Not(q) == Query("Not", "", "", <<q>>)
Child(q) == Query("Child", "", "", <<q>>)
Descendant(q) == Query("Descendant", "", "", <<q>>)
Parent(q) == Query("Parent", "", "", <<q>>)
Ancestor(q) == Query("Ancestor", "", "", <<q>>)

\* The result of UIQuery::matches: val is "true", "false" or "err"; evals
\* lists, in order, every (query, element) pair matches was called on.
MatchResult(val, evals) == [val |-> val, evals |-> evals]
Bool(b) == IF b THEN "true" ELSE "false"
Negate(v) == IF v = "true" THEN "false" ELSE "true"

RECURSIVE matches(_, _, _)
RECURSIVE MatchAnd(_, _, _, _)
RECURSIVE MatchOr(_, _, _, _)
RECURSIVE MatchChild(_, _, _, _)
RECURSIVE MatchDescendant(_, _, _, _)

\* an And that evaluates every sub-query before it answers
RECURSIVE MatchAndAll(_, _, _, _)
MatchAndAll(t, qs, e, i) ==
    IF i > Len(qs) THEN MatchResult("true", <<>>)
    ELSE LET r == matches(t, qs[i], e)
             rest == MatchAndAll(t, qs, e, i + 1)
         IN  MatchResult(IF r.val = "true" THEN rest.val ELSE r.val,
                         r.evals \o rest.evals)

\* UIQuery::And: the sub-queries from the i-th on, left to right
MatchAnd(t, qs, e, i) ==
    IF i > Len(qs) THEN MatchResult("true", <<>>)
    ELSE LET r == matches(t, qs[i], e)
         IN  IF r.val # "true" THEN r
             ELSE LET rest == MatchAnd(t, qs, e, i + 1)
                  IN  MatchResult(rest.val, r.evals \o rest.evals)

\* UIQuery::Or: the sub-queries from the i-th on, left to right
MatchOr(t, qs, e, i) ==
    IF i > Len(qs) THEN MatchResult("false", <<>>)
    ELSE LET r == matches(t, qs[i], e)
         IN  IF r.val # "false" THEN r
             ELSE LET rest == MatchOr(t, qs, e, i + 1)
                  IN  MatchResult(rest.val, r.evals \o rest.evals)

\* UIQuery::Child: the children from the i-th on
MatchChild(t, q, children, i) ==
    IF i > Len(children) THEN MatchResult("false", <<>>)
    ELSE LET r == matches(t, q, children[i])
         IN  IF r.val # "false" THEN r
             ELSE LET rest == MatchChild(t, q, children, i + 1)
                  IN  MatchResult(rest.val, r.evals \o rest.evals)

\* UIQuery::Descendant: the children from the i-th on; each child is tested
\* itself and then, if it did not match, for a descendant of its own
MatchDescendant(t, q, children, i) ==
    IF i > Len(children) THEN MatchResult("false", <<>>)
    ELSE LET r == matches(t, q, children[i])
         IN  IF r.val # "false" THEN r
             ELSE LET below == matches(t, Descendant(q), children[i])
                  IN  IF below.val # "false"
                      THEN MatchResult(below.val, r.evals \o below.evals)
                      ELSE LET rest == MatchDescendant(t, q, children, i + 1)
                           IN  MatchResult(rest.val,
                                           r.evals \o below.evals \o rest.evals)

\* UIQuery::matches
matches(t, q, e) ==
    LET here == <<[query |-> q, node |-> e.node]>>
        With(r) == MatchResult(r.val, here \o r.evals)
    IN  CASE q.kind = "ByName" ->
               MatchResult(Bool(<<"name", q.a>> \in get_properties(t, e)), here)
          [] q.kind = "ByType" ->
               MatchResult(Bool(<<"control_type", q.a>> \in get_properties(t, e)), here)
          [] q.kind = "ByProperty" ->
               MatchResult(Bool(<<q.a, q.b>> \in get_properties(t, e)), here)
          [] q.kind = "And" -> With(MatchAnd(t, q.qs, e, 1))
          [] q.kind = "Or" -> With(MatchOr(t, q.qs, e, 1))
          [] q.kind = "Not" ->
               LET r == matches(t, q.qs[1], e)
               IN  With(IF r.val = "err" THEN r ELSE MatchResult(Negate(r.val), r.evals))
          [] q.kind = "Child" ->
               LET children == get_children(t, e)
               IN  IF ~children.ok THEN MatchResult("err", here)
                   ELSE With(MatchChild(t, q.qs[1], children.val, 1))
          [] q.kind = "Descendant" ->
               LET children == get_children(t, e)
               IN  IF ~children.ok THEN MatchResult("err", here)
                   ELSE With(MatchDescendant(t, q.qs[1], children.val, 1))
          [] OTHER -> MatchResult("false", here)

\* UIQuery::find_all
RECURSIVE find_all(_, _, _)
RECURSIVE FindAllChildren(_, _, _, _)
FindAllChildren(t, q, children, i) ==
    IF i > Len(children) THEN Ok(<<>>)
    ELSE LET child_results == find_all(t, q, children[i])
         IN  IF ~child_results.ok THEN Err
             ELSE LET rest == FindAllChildren(t, q, children, i + 1)
                  IN  IF ~rest.ok THEN Err ELSE Ok(child_results.val \o rest.val)

find_all(t, q, root) ==
    LET m == matches(t, q, root)
        children == get_children(t, root)
    IN  IF m.val = "err" THEN Err
        ELSE IF ~children.ok THEN Err
        ELSE LET below == FindAllChildren(t, q, children.val, 1)
             IN  IF ~below.ok THEN Err
                 ELSE Ok((IF m.val = "true" THEN <<root>> ELSE <<>>) \o below.val)

-----------------------------------------------------------------------------
(* The query engine: Window::find_elements and find_element_by_type *)

\* the type names WindowsWindow::find_elements maps to their control type
WindowTypeNames ==
    {"Button", "Edit", "Text", "ComboBox", "CheckBox", "RadioButton", "ListItem",
     "List", "TreeItem", "Tree", "TabItem", "Tab", "Table", "Document", "Pane",
     "Window", "Group", "Image", "Hyperlink", "Custom", "MenuBar", "MenuItem",
     "Menu"}

\* the type names find_element_by_type maps to their control type
AutomationTypeNames ==
    {"Button", "Edit", "Text", "ComboBox", "CheckBox", "RadioButton", "ListItem",
     "List", "TreeItem", "Tree", "TabItem", "Tab", "Table", "Document", "Pane",
     "Window", "Group", "Image", "Hyperlink", "Custom"}

\* the control type a type name is converted to: any other name is Custom
control_type_enum(names, control_type) ==
    IF control_type \in names THEN control_type ELSE "Custom"

\* the OS search for the elements among nodes whose control-type id is id
WithControlType(t, nodes, id) ==
    LET HasId(i) == t.kinds[i].ctid = id
    IN  SelectSeq(nodes, HasId)

\* handles without a tree walker for the elements nodes
Handles(nodes) == [k \in 1..Len(nodes) |-> Handle(nodes[k], FALSE)]

\* the elements of candidates for which matches answers want, in order; Err
\* as soon as matches fails
RECURSIVE FilterByMatch(_, _, _, _, _)
FilterByMatch(t, q, candidates, i, want) ==
    IF i > Len(candidates) THEN Ok(<<>>)
    ELSE LET m == matches(t, q, candidates[i])
         IN  IF m.val = "err" THEN Err
             ELSE LET rest == FilterByMatch(t, q, candidates, i + 1, want)
                  IN  IF ~rest.ok THEN Err
                      ELSE Ok((IF m.val = want THEN <<candidates[i]>> ELSE <<>>)
                              \o rest.val)

\* Vec::retain of the And branch: keep e1 when some e2 of elements has its
\* name and its type
Retain(t, results, elements) ==
    LET Keep(e1) == \E k \in DOMAIN elements :
                        /\ get_name(t, e1) = get_name(t, elements[k])
                        /\ get_type(t, e1) = get_type(t, elements[k])
    IN  SelectSeq(results, Keep)

RECURSIVE find_elements(_, _)
RECURSIVE FindElementsAnd(_, _, _, _)
RECURSIVE FindElementsOr(_, _, _, _)

\* the And branch: the sub-queries from the i-th on
FindElementsAnd(t, qs, i, results) ==
    IF i > Len(qs) THEN Ok(results)
    ELSE LET elements == find_elements(t, qs[i])
         IN  IF ~elements.ok THEN Err
             ELSE FindElementsAnd(t, qs, i + 1,
                                  IF results = <<>> THEN elements.val
                                  ELSE Retain(t, results, elements.val))

\* the Or branch: the sub-queries from the i-th on
FindElementsOr(t, qs, i, results) ==
    IF i > Len(qs) THEN Ok(results)
    ELSE LET elements == find_elements(t, qs[i])
         IN  IF ~elements.ok THEN Err
             ELSE FindElementsOr(t, qs, i + 1, results \o elements.val)

\* WindowsWindow::find_elements on the window whose element is the root of t.
\* The Parent and Ancestor branches search with TreeScope::Parent, which the
\* OS search refuses, and so return no element.
find_elements(t, q) ==
    LET descendants == DescendantNodes(t, 1)
        children == ChildNodes(t, 1)
        HasName(i) == t.kinds[i].name = q.a
        HasEntry(e) == <<q.a, q.b>> \in get_properties(t, e)
    IN  CASE q.kind = "ByName" -> Ok(Handles(SelectSeq(descendants, HasName)))
          [] q.kind = "ByType" ->
               Ok(Handles(WithControlType(t, descendants,
                                          control_type_enum(WindowTypeNames, q.a))))
          [] q.kind = "ByProperty" ->
               Ok(SelectSeq(Handles(WithControlType(t, descendants, "Custom")), HasEntry))
          [] q.kind = "And" -> FindElementsAnd(t, q.qs, 1, <<>>)
          [] q.kind = "Or" -> FindElementsOr(t, q.qs, 1, <<>>)
          [] q.kind = "Not" ->
               FilterByMatch(t, q.qs[1],
                             Handles(WithControlType(t, descendants, "Custom")), 1, "false")
          [] q.kind = "Child" ->
               FilterByMatch(t, q.qs[1],
                             Handles(WithControlType(t, children, "Custom")), 1, "true")
          [] q.kind = "Descendant" ->
               FilterByMatch(t, q.qs[1],
                             Handles(WithControlType(t, descendants, "Custom")), 1, "true")
          [] OTHER -> Ok(<<>>)

\* UIAutomation::find_element_by_type, with the root of t as the desktop
\* root: the first element below it with the control type, or an error
find_element_by_type(t, element_type) ==
    LET found == WithControlType(t, DescendantNodes(t, 1),
                                 control_type_enum(AutomationTypeNames, element_type))
    IN  IF found = <<>> THEN Err ELSE Ok(<<Handle(found[1], FALSE)>>)

-----------------------------------------------------------------------------
(* The query engine as a state machine: one tree, one operation *)

Atoms == {ByName("x"), ByType("Edit"), ByType("Slider"), ByProperty("name", "y")}

Unary == UNION {{Not(a), Child(a), Descendant(a)} : a \in Atoms}

SubQueries == {ByName("x"), ByType("Edit"), Child(ByName("x"))}

SubQueryLists == UNION {[1..n -> SubQueries] : n \in 0..MaxSub}

Queries == Atoms \cup Unary \cup {And(qs) : qs \in SubQueryLists}
                 \cup {Or(qs) : qs \in SubQueryLists}

TypeStrings == {"Edit", "Custom", "Slider"}

\* the queries handed to UIQuery::matches
MatchQueries == Queries \cup {ByType(s) : s \in TypeStrings}

QRes(op, walker, val, list, evals) ==
    [op |-> op, walker |-> walker, val |-> val, list |-> list, evals |-> evals]

\* a caller evaluates q on the root through a handle with or without walker
QMatches(q, walker) ==
    /\ qres.op = "none"
    /\ query' = q
    /\ LET m == matches(tree, q, Handle(1, walker))
       IN  qres' = QRes("matches", walker, m.val, <<>>, m.evals)
    /\ UNCHANGED tree
    /\ UNCHANGED exceptQuery

\* a caller searches the tree from the root with UIQuery::find_all
QFindAll(q, walker) ==
    /\ qres.op = "none"
    /\ query' = q
    /\ LET r == find_all(tree, q, Handle(1, walker))
       IN  qres' = QRes("find_all", walker, IF r.ok THEN "ok" ELSE "err", r.val, <<>>)
    /\ UNCHANGED tree
    /\ UNCHANGED exceptQuery

\* a caller searches the window with Window::find_elements
QFindElements(q) ==
    /\ qres.op = "none"
    /\ query' = q
    /\ LET r == find_elements(tree, q)
       IN  qres' = QRes("find_elements", FALSE, IF r.ok THEN "ok" ELSE "err", r.val, <<>>)
    /\ UNCHANGED tree
    /\ UNCHANGED exceptQuery

\* a caller searches the desktop with UIAutomation::find_element_by_type
QFindElementByType(element_type) ==
    /\ qres.op = "none"
    /\ query' = ByType(element_type)
    /\ LET r == find_element_by_type(tree, element_type)
       IN  qres' = QRes("find_element_by_type", FALSE,
                        IF r.ok THEN "ok" ELSE "err", r.val, <<>>)
    /\ UNCHANGED tree
    /\ UNCHANGED exceptQuery

\* a caller asks the root for its children through a handle with or without
\* walker
QGetChildren(walker) ==
    /\ qres.op = "none"
    /\ query' = NoQuery
    /\ LET r == get_children(tree, Handle(1, walker))
       IN  qres' = QRes("get_children", walker, IF r.ok THEN "ok" ELSE "err", r.val, <<>>)
    /\ UNCHANGED tree
    /\ UNCHANGED exceptQuery

InitQuery ==
    /\ tree \in Trees
    /\ query = NoQuery
    /\ qres = NoQres
    /\ ThreadsIdle
    /\ CallsIdle
    /\ elem = Element("Edit", TRUE, TRUE, FALSE)
    /\ content = <<>>
    /\ caret = 0
    /\ pc = "idle"
    /\ call = [op |-> "none", text |-> <<>>, position |-> "none"]
    /\ result = "none"
    /\ log = <<>>
    /\ local = NoLocal
    /\ hist = NoHist

NextQuery ==
    \/ qres.op = "none" /\ \E q \in MatchQueries, walker \in BOOLEAN : QMatches(q, walker)
    \/ qres.op = "none" /\ \E q \in Queries, walker \in BOOLEAN : QFindAll(q, walker)
    \/ qres.op = "none" /\ \E q \in Queries : QFindElements(q)
    \/ qres.op = "none" /\ \E s \in TypeStrings : QFindElementByType(s)
    \/ qres.op = "none" /\ \E walker \in BOOLEAN : QGetChildren(walker)

SpecQuery == InitQuery /\ [][NextQuery]_vars

-----------------------------------------------------------------------------
(* Threads: two threads of a client share one WindowsUIAutomation (Send +   *)
(* Sync, Clone) and write to the focused element.  The automation lock is   *)
(* the Mutex of ThreadSafe<UIAutomation>; the text a thread writes is its   *)
(* own number.                                                              *)

\* thread t moves to position at of operation op
At(t, op, at) == thr' = [thr EXCEPT ![t] = [pc |-> at, op |-> op, result |-> "none"]]

\* thread t returns r from its operation and keeps its element
Returned(t, r) == thr' = [thr EXCEPT ![t] = [pc |-> "has_element", op |-> @.op, result |-> r]]

\* get_focused_element: self.automation.lock()? succeeds when the lock is free
GfeLock(t) ==
    /\ thr[t].pc \in {"idle", "has_element"}
    /\ lock = 0
    /\ lock' = t
    /\ At(t, "get_focused_element", "gfe_locked")
    /\ UNCHANGED shared
    /\ UNCHANGED exceptThread

\* get_focused_element: the guard is dropped and the element is returned
GfeReturn(t) ==
    /\ thr[t].pc = "gfe_locked"
    /\ lock' = 0
    /\ Returned(t, "Ok")
    /\ UNCHANGED shared
    /\ UNCHANGED exceptThread

\* set_text on the element the thread holds: gate and select-all; no lock
ThSetText(t) ==
    /\ thr[t].pc = "has_element"
    /\ At(t, "set_text", "st_clear")
    /\ UNCHANGED <<lock, shared>>
    /\ UNCHANGED exceptThread

\* set_text: send_keys("{Ctrl}a{Delete}")
ThClear(t) ==
    /\ thr[t].pc = "st_clear"
    /\ shared' = <<>>
    /\ At(t, "set_text", "st_bulk")
    /\ UNCHANGED lock
    /\ UNCHANGED exceptThread

\* set_text: send_text(text)
ThBulk(t) ==
    /\ thr[t].pc = "st_bulk"
    /\ shared' = Append(shared, t)
    /\ At(t, "set_text", "st_verify")
    /\ UNCHANGED lock
    /\ UNCHANGED exceptThread

\* set_text: read back and compare; Ok, or on to the correction pass
ThVerify(t) ==
    /\ thr[t].pc = "st_verify"
    /\ IF shared = <<t>> THEN Returned(t, "Ok") ELSE At(t, "set_text", "st_clear2")
    /\ UNCHANGED <<lock, shared>>
    /\ UNCHANGED exceptThread

\* set_text: clear before the correction pass
ThClear2(t) ==
    /\ thr[t].pc = "st_clear2"
    /\ shared' = <<>>
    /\ At(t, "set_text", "st_word")
    /\ UNCHANGED lock
    /\ UNCHANGED exceptThread

\* set_text: the word of the correction pass
ThWord(t) ==
    /\ thr[t].pc = "st_word"
    /\ shared' = Append(shared, t)
    /\ At(t, "set_text", "st_final")
    /\ UNCHANGED lock
    /\ UNCHANGED exceptThread

\* set_text: final verification, which only logs; Ok
ThFinal(t) ==
    /\ thr[t].pc = "st_final"
    /\ Returned(t, "Ok")
    /\ UNCHANGED <<lock, shared>>
    /\ UNCHANGED exceptThread

InitThread ==
    /\ ThreadsIdle
    /\ CallsIdle
    /\ elem = Element("Edit", TRUE, TRUE, FALSE)
    /\ content = <<>>
    /\ caret = 0
    /\ pc = "idle"
    /\ call = [op |-> "none", text |-> <<>>, position |-> "none"]
    /\ result = "none"
    /\ log = <<>>
    /\ local = NoLocal
    /\ hist = NoHist
    /\ tree = NoTree
    /\ query = NoQuery
    /\ qres = NoQres

NextThread ==
    \E t \in Threads :
        \/ GfeLock(t)
        \/ GfeReturn(t)
        \/ ThSetText(t)
        \/ ThClear(t)
        \/ ThBulk(t)
        \/ ThVerify(t)
        \/ ThClear2(t)
        \/ ThWord(t)
        \/ ThFinal(t)

SpecThread == InitThread /\ [][NextThread]_vars

-----------------------------------------------------------------------------
(* The automation lock in Window::find_elements: two threads search windows *)
(* of one WindowsUIAutomation.  query holds the query of each thread.       *)

\* most elements a search hands to UIQuery::matches
MaxFound == 1

\* the queries whose branch of find_elements evaluates matches under the lock
LockedBranchQueries ==
    UNION {{Not(q), Child(q), Descendant(q), Parent(q), Ancestor(q)} :
             q \in {ByName("x"), Child(ByName("x")), Descendant(ByName("x"))}}

\* UIQuery::matches on q starts with element.get_children()?
CallsGetChildren(q) == q.kind \in {"Child", "Descendant"}

\* thread t calls find_elements(q)
FeCall(t, q) ==
    /\ thr[t].pc \in {"idle", "has_element"}
    /\ query' = [query EXCEPT ![t] = q]
    /\ At(t, "find_elements", "fe_lock")
    /\ UNCHANGED <<lock, shared, tree, qres>>
    /\ UNCHANGED <<textVars, callVars>>

\* self.automation.automation.lock()?: the guard lives to the end of the branch
FeLock(t) ==
    /\ thr[t].pc = "fe_lock"
    /\ lock = 0
    /\ lock' = t
    /\ At(t, "find_elements", "fe_locked")
    /\ UNCHANGED <<shared, tree, query, qres>>
    /\ UNCHANGED <<textVars, callVars>>

\* the search and the loop over the found elements, each wrapped without a
\* walker and handed to matches of the sub-query: with nothing found, or a
\* sub-query that reads properties only, the branch returns Ok and the guard
\* is dropped; otherwise matches calls get_children on the first element
FeMatch(t, found) ==
    /\ thr[t].pc = "fe_locked"
    /\ IF found = 0 \/ ~CallsGetChildren(query[t].qs[1])
       THEN /\ lock' = 0
            /\ Returned(t, "Ok")
       ELSE /\ At(t, "find_elements", "gc_automation")
            /\ UNCHANGED lock
    /\ UNCHANGED <<shared, tree, query, qres>>
    /\ UNCHANGED <<textVars, callVars>>

\* get_children without a walker reads the thread-local AUTOMATION: None is
\* an error that `?` carries out of matches and of find_elements, dropping
\* the guard; an instance is locked next
GcAutomation(t) ==
    /\ thr[t].pc = "gc_automation"
    /\ IF AutomationInstalled
       THEN /\ At(t, "find_elements", "gc_lock")
            /\ UNCHANGED lock
       ELSE /\ lock' = 0
            /\ Returned(t, "Err")
    /\ UNCHANGED <<shared, tree, query, qres>>
    /\ UNCHANGED <<textVars, callVars>>

\* the steps of a find_elements call of thread t after the call
FeSteps(t) ==
    \/ FeLock(t)
    \/ \E found \in 0..MaxFound : FeMatch(t, found)
    \/ GcAutomation(t)

InitLock ==
    /\ ThreadsIdle
    /\ CallsIdle
    /\ TextIdle
    /\ tree = NoTree
    /\ query = [t \in Threads |-> NoQuery]
    /\ qres = NoQres

NextLock ==
    \E t \in Threads :
        \/ \E q \in LockedBranchQueries : FeCall(t, q)
        \/ FeLock(t)
        \/ \E found \in 0..MaxFound : FeMatch(t, found)
        \/ GcAutomation(t)

\* a thread that can take a step of its call takes it in the end
SpecLock == InitLock /\ [][NextLock]_vars /\ \A t \in Threads : WF_vars(FeSteps(t))

-----------------------------------------------------------------------------
(* Single operations: an operation applied once to one input *)

\* the operation returned r
Returns(r) == ret' = [done |-> TRUE, ok |-> r.ok, val |-> r.val]

-----------------------------------------------------------------------------
(* WindowsElement::get_text, with the OS reads that can fail *)

\* the property reads get_text makes before it looks at the patterns
PropertyReads == <<"control_type", "name", "class_name">>

\* What get_text is applied to: whether the element has the value pattern,
\* the value the pattern holds and whether get_value succeeds; the same for
\* the text pattern and its document range; and the property read that
\* fails, if one does.
GetTextInputs ==
    [op : {"get_text"},
     hasValue : BOOLEAN, value : {<<>>, <<"a">>}, valueOk : BOOLEAN,
     hasText : BOOLEAN, text : {<<>>, <<"a", "a">>}, textOk : BOOLEAN,
     failing : {"none"} \cup Range(PropertyReads)]

\* WindowsElement::get_text
get_text_result(e) ==
    IF e.failing # "none" THEN Err
    ELSE IF e.hasValue /\ ~e.valueOk THEN Err
    ELSE IF e.hasValue /\ e.value # <<>> THEN Ok(e.value)
    ELSE IF e.hasText /\ ~e.textOk THEN Err
    ELSE IF e.hasText /\ e.text # <<>> THEN Ok(e.text)
    ELSE Ok(<<>>)

\* a caller reads the text of the element
GetText ==
    /\ arg.op = "get_text"
    /\ ~ret.done
    /\ Returns(get_text_result(arg))
    /\ UNCHANGED arg
    /\ UNCHANGED exceptCall

InitGetText ==
    /\ arg \in GetTextInputs
    /\ ret = NoRet
    /\ TextIdle /\ QueryIdle /\ ThreadsIdle

NextGetText == GetText

SpecGetText == InitGetText /\ [][NextGetText]_vars

-----------------------------------------------------------------------------
(* WindowsWindow::get_ui_tree: the snapshot builder *)

\* the depth cap get_ui_tree passes to build_tree_node
SnapshotMaxDepth == 3
\* the most children build_tree_node takes at the root and below it
RootMaxChildren == 50
DeepMaxChildren == 20

\* most levels of a live tree below its root
MaxLevels == 5

\* the numbers of children an element with children has in the live trees:
\* one, and one more than each cap
Widths == {1, DeepMaxChildren + 1, RootMaxChildren + 1}

\* sum of the first k entries of ws
RECURSIVE SumUpTo(_, _)
SumUpTo(ws, k) == IF k = 0 THEN 0 ELSE SumUpTo(ws, k - 1) + ws[k]

\* The live tree with the levels ws: on level k one element, the first or
\* the last of its level, has ws[k] children, every other element is a leaf.
\* The elements are numbered level by level, siblings in OS order.
LiveTree(ws, heir) ==
    LET n == 1 + SumUpTo(ws, Len(ws))
        Level(i) == CHOOSE k \in 1..Len(ws) :
                        1 + SumUpTo(ws, k - 1) < i /\ i <= 1 + SumUpTo(ws, k)
        Heir(k) == IF k = 0 THEN 1
                   ELSE IF heir = "first" THEN 2 + SumUpTo(ws, k - 1)
                   ELSE 1 + SumUpTo(ws, k)
    IN  [kinds |-> [i \in 1..n |-> Node("Edit", "x")],
         parent |-> [i \in 1..n |-> IF i = 1 THEN 0 ELSE Heir(Level(i) - 1)]]

LiveTrees ==
    {LiveTree(ws, heir) :
        ws \in UNION {[1..k -> Widths] : k \in 0..MaxLevels},
        heir \in {"first", "last"}}

\* the first n entries of s (Iterator::take)
Take(s, n) == IF Len(s) <= n THEN s ELSE SubSeq(s, 1, n)

\* UITreeNode, with the live element it was built from
UITreeNode(node, name, control_type, children) ==
    [node |-> node, name |-> name, control_type |-> control_type, children |-> children]

\* the control type build_tree_node records: "Unknown" for an id that
\* ControlType::try_from rejects
snapshot_control_type(t, e) ==
    IF t.kinds[e.node].ctid = "Unrecognised" THEN "Unknown" ELSE t.kinds[e.node].ctid

\* a builder without the depth cap
RECURSIVE build_tree_node_deep(_, _, _, _)
build_tree_node_deep(t, element, depth, max_depth) ==
    LET child_elements == get_children(t, element)
        max_children == IF depth = 0 THEN RootMaxChildren ELSE DeepMaxChildren
        taken == IF child_elements.ok THEN Take(child_elements.val, max_children) ELSE <<>>
    IN  UITreeNode(element.node, get_name(t, element), snapshot_control_type(t, element),
                   [k \in DOMAIN taken |->
                        build_tree_node_deep(t, taken[k], depth + 1, max_depth)])

\* a builder without the breadth caps
RECURSIVE build_tree_node_wide(_, _, _, _)
build_tree_node_wide(t, element, depth, max_depth) ==
    LET child_elements == get_children(t, element)
        taken == IF depth < max_depth /\ child_elements.ok
                 THEN child_elements.val ELSE <<>>
    IN  UITreeNode(element.node, get_name(t, element), snapshot_control_type(t, element),
                   [k \in DOMAIN taken |->
                        build_tree_node_wide(t, taken[k], depth + 1, max_depth)])

\* build_tree_node
RECURSIVE build_tree_node(_, _, _, _)
build_tree_node(t, element, depth, max_depth) ==
    LET child_elements == get_children(t, element)
        max_children == IF depth = 0 THEN RootMaxChildren ELSE DeepMaxChildren
        taken == IF depth < max_depth /\ child_elements.ok
                 THEN Take(child_elements.val, max_children) ELSE <<>>
    IN  UITreeNode(element.node, get_name(t, element), snapshot_control_type(t, element),
                   [k \in DOMAIN taken |->
                        build_tree_node(t, taken[k], depth + 1, max_depth)])

\* WindowsWindow::get_ui_tree: the root wrapper carries the tree walker
get_ui_tree(t) == Ok(build_tree_node(t, Handle(1, TRUE), 0, SnapshotMaxDepth))

\* a caller takes a snapshot of the window
GetUiTree ==
    /\ arg.op = "get_ui_tree"
    /\ ~ret.done
    /\ Returns(get_ui_tree(tree))
    /\ UNCHANGED arg
    /\ UNCHANGED exceptCall

InitSnapshot ==
    /\ arg = [op |-> "get_ui_tree"]
    /\ ret = NoRet
    /\ tree \in LiveTrees
    /\ query = NoQuery /\ qres = NoQres
    /\ TextIdle /\ ThreadsIdle

NextSnapshot == GetUiTree

SpecSnapshot == InitSnapshot /\ [][NextSnapshot]_vars

-----------------------------------------------------------------------------
(* WindowsElement::click *)

\* What click is applied to: whether the OS reports a bounding rectangle and
\* whether it converts to a RECT, whether the direct click succeeds, whether
\* the element has the invoke pattern and whether invoke succeeds.
ClickInputs ==
    [op : {"click"}, rectOk : BOOLEAN, convertOk : BOOLEAN, clickOk : BOOLEAN,
     hasInvoke : BOOLEAN, invokeOk : BOOLEAN]

\* WindowsElement::get_bounds: Ok(Some(rect)), Ok(None) or Err
get_bounds(e) ==
    IF ~e.rectOk THEN "None" ELSE IF e.convertOk THEN "Some" ELSE "Err"

\* click is at step at, having made the attempts tried
ClickAt(at, tried) == ret' = [done |-> FALSE, ok |-> FALSE, val |-> tried, at |-> at]

\* click returns
ClickReturns(ok, tried) == ret' = [done |-> TRUE, ok |-> ok, val |-> tried, at |-> "done"]

\* click at step at
Clicking(at) == arg.op = "click" /\ ~ret.done /\ ret.at = at

\* if let Ok(Some(bounds)) = self.get_bounds()
ClickBounds ==
    /\ Clicking("start")
    /\ ClickAt(IF get_bounds(arg) = "Some" THEN "direct" ELSE "pattern", ret.val)
    /\ UNCHANGED arg
    /\ UNCHANGED exceptCall

\* a direct click that gives up when it fails
ClickDirectOnly ==
    /\ Clicking("direct")
    /\ ClickReturns(arg.clickOk, Append(ret.val, "click"))
    /\ UNCHANGED arg
    /\ UNCHANGED exceptCall

\* self.element.click()
ClickDirect ==
    /\ Clicking("direct")
    /\ IF arg.clickOk
       THEN ClickReturns(TRUE, Append(ret.val, "click"))
       ELSE ClickAt("pattern", Append(ret.val, "click"))
    /\ UNCHANGED arg
    /\ UNCHANGED exceptCall

\* self.element.get_pattern::<UIInvokePattern>()
ClickPattern ==
    /\ Clicking("pattern")
    /\ IF arg.hasInvoke
       THEN ClickAt("invoke", Append(ret.val, "get_pattern"))
       ELSE ClickReturns(FALSE, Append(ret.val, "get_pattern"))
    /\ UNCHANGED arg
    /\ UNCHANGED exceptCall

\* invoke_pattern.invoke()
ClickInvoke ==
    /\ Clicking("invoke")
    /\ ClickReturns(arg.invokeOk, Append(ret.val, "invoke"))
    /\ UNCHANGED arg
    /\ UNCHANGED exceptCall

InitClick ==
    /\ arg \in ClickInputs
    /\ ret = [done |-> FALSE, ok |-> FALSE, val |-> <<>>, at |-> "start"]
    /\ TextIdle /\ QueryIdle /\ ThreadsIdle

click == ClickBounds \/ ClickDirect \/ ClickPattern \/ ClickInvoke

NextClick == click

SpecClick == InitClick /\ [][NextClick]_vars

-----------------------------------------------------------------------------
(* The Python bridge: PyUIElement and PyAutomation methods *)

\* the outcomes of a native operation that returns one of vals
Outcomes(vals) == {Ok(v) : v \in vals} \cup {Err}

\* What a bridge method is applied to: the method, its arguments, and what
\* the native operation it calls returns.
BridgeInput(method, text, position, native) ==
    [op |-> "bridge", method |-> method, text |-> text, position |-> position,
     native |-> native]

BridgeInputs ==
    {BridgeInput(m, <<>>, "", n) :
        m \in {"name", "control_type", "get_text"}, n \in Outcomes(AppendTexts)}
    \cup {BridgeInput("is_enabled", <<>>, "", n) : n \in Outcomes(BOOLEAN)}
    \cup {BridgeInput("get_properties", <<>>, "", n) :
            n \in Outcomes({{}, {<<"name", "x">>}})}
    \cup {BridgeInput("set_text", t, "", n) : t \in AppendTexts, n \in Outcomes({<<>>})}
    \cup {BridgeInput("append_text", t, p, n) :
            t \in AppendTexts, p \in Positions \cup {"end"}, n \in Outcomes({<<>>})}
    \cup {BridgeInput("focused_window", <<>>, "", n) :
            n \in Outcomes({"window 1", "window 2"})}

\* the AppendPosition PyUIElement::append_text passes on
append_pos(position) == IF position \in Positions THEN position ELSE "EndOfText"

\* the native operation a bridge method calls, with its arguments
NativeCall(e) ==
    CASE e.method = "name" -> [op |-> "get_name"]
      [] e.method = "control_type" -> [op |-> "get_type"]
      [] e.method = "is_enabled" -> [op |-> "is_enabled"]
      [] e.method = "get_properties" -> [op |-> "get_properties"]
      [] e.method = "get_text" -> [op |-> "get_text"]
      [] e.method = "set_text" -> [op |-> "set_text", text |-> e.text]
      [] e.method = "append_text" ->
           [op |-> "append_text", text |-> e.text, position |-> append_pos(e.position)]
      [] e.method = "focused_window" -> [op |-> "get_active_window"]

\* what the bridge method returns to Python: Ok(v), or Err for an exception
Bridge(e) ==
    CASE e.method \in {"name", "control_type", "get_text"} ->
           IF e.native.ok THEN e.native ELSE Ok(<<>>)
      [] e.method = "is_enabled" -> IF e.native.ok THEN e.native ELSE Ok(FALSE)
      [] e.method = "get_properties" -> IF e.native.ok THEN e.native ELSE Ok({})
      [] OTHER -> e.native

\* a Python caller calls a bridge method
BridgeCall ==
    /\ arg.op = "bridge"
    /\ ~ret.done
    /\ LET r == Bridge(arg)
       IN  ret' = [done |-> TRUE, ok |-> r.ok, val |-> r.val, called |-> NativeCall(arg)]
    /\ UNCHANGED arg
    /\ UNCHANGED exceptCall

InitBridge ==
    /\ arg \in BridgeInputs
    /\ ret = NoRet
    /\ TextIdle /\ QueryIdle /\ ThreadsIdle

NextBridge == BridgeCall

SpecBridge == InitBridge /\ [][NextBridge]_vars

-----------------------------------------------------------------------------
(* Properties of the text protocol *)

Done(op) == pc = "done" /\ call.op = op

\* the element's text can be read back: it has a value or a text pattern
Readable(e) == e.hasValue \/ e.hasText

\* the control types the classification admits, with or without condition
InputSet == {"Edit", "ComboBox", "CheckBox", "RadioButton", "Slider", "Text",
             "Document", "Pane", "Custom"}

\* the OS calls of the call so far that act on the element
SideEffects == {i \in DOMAIN log : log[i].op \in {"set_focus", "select", "send_keys", "send_text"}}

\* C1: set_text and append_text on an element whose control type is outside
\* the input set (e.g. Button) return an error before any side effect: no
\* focus change, no key sequence, no text injection, and the text and caret
\* are as before the call.
C1_GateRefusesBeforeSideEffect ==
    (call.op \in {"set_text", "append_text"} /\ get_control_type(elem) \notin InputSet)
        => /\ pc = "done"
           /\ result = "Err"
           /\ SideEffects = {}
           /\ content = hist.content0
           /\ caret = hist.caret0

\* C1 witness: append_text on a Button that holds text has returned.
C1_Witness ==
    /\ Done("append_text")
    /\ elem.ctid = "Button"
    /\ call.text # <<>>
    /\ hist.content0 # <<>>
    /\ result = "Err"

\* C2: for every string s without control characters and every element that
\* passes the gate and whose text can be read back, once set_text(e, s) has
\* returned Ok, get_text(e) is exactly s, also when the word-by-word
\* correction pass ran.  Stated for the runs in which every key sequence acted
\* and every injection of the correction pass was delivered unaltered.
C2_SetTextRoundTrip ==
    (/\ Done("set_text")
     /\ result = "Ok"
     /\ Readable(elem)
     /\ Range(call.text) \subseteq {"a", "SP"}
     /\ hist.faithful)
        => get_text(elem, content) = call.text

\* C3: for an element holding text T, with the caret anywhere, an
\* append_text(e, x, EndOfText) that returns Ok leaves get_text(e) equal to T
\* followed by x.  Stated for the runs in which every key sequence acted and
\* every injection of the correction pass was delivered unaltered.
C3_AppendEndOfText ==
    (/\ Done("append_text")
     /\ call.position = "EndOfText"
     /\ result = "Ok"
     /\ Readable(elem)
     /\ hist.faithful)
        => get_text(elem, content) = get_text(elem, hist.content0) \o call.text

\* C4: for a target s with embedded '\n', once set_text(e, s) has returned
\* Ok, get_text(e) equals s after "\r\n" is normalised to "\n", both when the
\* bulk attempt verified and when the correction pass ran.  Stated for the
\* runs in which every key sequence acted and every injection, the bulk one
\* included, was delivered unaltered.
C4_MultilineRoundTrip ==
    (/\ Done("set_text")
     /\ result = "Ok"
     /\ Readable(elem)
     /\ "NL" \in Range(call.text)
     /\ hist.bulkFaithful
     /\ hist.faithful)
        => NormalizeNewlines(get_text(elem, content)) = call.text

\* number of characters c in s
RECURSIVE Count(_, _)
Count(s, c) ==
    IF s = <<>> THEN 0 ELSE (IF Head(s) = c THEN 1 ELSE 0) + Count(Tail(s), c)

LineBreakKeys ==
    {i \in DOMAIN log : log[i].op = "send_keys" /\ log[i].keys = "{shift}{enter}"}

\* C5: whenever set_text writes a target containing '\n', no newline
\* character is passed inside a text-injection call, and once the call has
\* returned Ok every newline of the target was sent as the line-break key
\* sequence (Shift+Enter).
C5_NewlinesAsLineBreakKeys ==
    call.op = "set_text"
        => /\ \A i \in DOMAIN log :
                log[i].op = "send_text" => "NL" \notin Range(log[i].text)
           /\ (pc = "done" /\ result = "Ok")
                => Cardinality(LineBreakKeys) = Count(call.text, "NL")

\* the log entries made at one of the steps in ats, in order
LogAt(ats) ==
    LET Made(ev) == ev.at \in ats
    IN  SelectSeq(log, Made)

\* the texts of a sequence of log entries
TextsOf(evs) == [i \in DOMAIN evs |-> evs[i].text]

\* s is an initial part of t
IsPrefix(s, t) == Len(s) <= Len(t) /\ s = SubSeq(t, 1, Len(s))

\* the most OS calls one call makes: the fixed steps, one backspace per
\* character read back, and a word, a character and a space per character
\* of the text
MaxLog == 6 + Len(hist.content0) + 4 * Len(call.text)

\* how far into its call a step is: a later step has a higher rank
StepRank(at) ==
    CASE at = "idle" -> 0
      [] at \in {"st_select", "ap_focus"} -> 1
      [] at \in {"st_clear", "ap_position"} -> 2
      [] at \in {"st_bulk", "ap_before"} -> 3
      [] at \in {"st_verify", "ap_bulk"} -> 4
      [] at \in {"st_clear2", "ap_verify"} -> 5
      [] at = "ap_backspace" -> 6
      [] at \in {"st_word", "st_char", "st_space", "ap_word", "ap_char", "ap_space"} -> 7
      [] at \in {"st_final", "ap_end"} -> 8
      [] OTHER -> 9

\* C13: every set_text and every append_text call ends after at most one
\* bulk injection and at most one correction pass: the correction pass is
\* entered once, its word-level injections are the words of the target, each
\* at most once and in order, and every step of a call makes an OS call or
\* moves on to a later step, the OS calls of one call being bounded.
C13_BoundedRetries ==
    /\ [](/\ Len(LogAt({"st_bulk", "ap_bulk"})) <= 1
          /\ Len(LogAt({"st_clear2"})) <= 1
          /\ IsPrefix(TextsOf(LogAt({"st_word", "ap_word"})), SplitWhitespace(call.text))
          /\ Len(log) <= MaxLog)
    /\ [][Len(log') > Len(log) \/ (log' = log /\ StepRank(pc') > StepRank(pc))]_vars

\* C13 witness: a set_text of two words has returned after its correction
\* pass.
C13_Witness ==
    /\ Done("set_text")
    /\ hist.path = "corrected"
    /\ Len(SplitWhitespace(call.text)) = 2
    /\ Len(LogAt({"st_word"})) = 2

\* C14: an element qualifies as an input control exactly when its control
\* type is one of Edit, ComboBox, CheckBox, RadioButton, Slider, Text,
\* Document, or its control type is Pane or Custom and it exposes a value
\* capability or a text capability.
C14_InputClassification ==
    is_input_control(elem)
        <=> \/ get_control_type(elem) \in {"Edit", "ComboBox", "CheckBox", "RadioButton",
                                           "Slider", "Text", "Document"}
            \/ /\ get_control_type(elem) \in {"Pane", "Custom"}
               /\ (elem.hasValue \/ elem.hasText)

\* C16: append_text(e, x, CurrentCursor) sends no caret-moving key before
\* injecting, and when it returns Ok with every injection delivered unaltered
\* and every key sequence acting, the text is the original text with exactly
\* x inserted at the position the caret had, for every caret position and
\* every x, leading or trailing spaces included.  Stated for the elements
\* whose text can be read back.
C16_AppendAtCurrentCursor ==
    (call.op = "append_text" /\ call.position = "CurrentCursor")
        => /\ \A i \in DOMAIN log :
                log[i].op = "send_keys" => log[i].keys \notin {"{END}", "{CTRL}{END}"}
           /\ (/\ pc = "done" /\ result = "Ok"
               /\ Readable(elem) /\ hist.bulkFaithful /\ hist.faithful)
                => get_text(elem, content)
                       = InsertAt(get_text(elem, hist.content0), hist.caret0, call.text)

\* the call passed the classification gate
PassedGate == call.op \in {"set_text", "append_text"} /\ is_input_control(elem)

\* the bulk injection returned Err: it is the last OS call of the call
BulkFailed ==
    /\ pc = "done"
    /\ log # <<>>
    /\ log[Len(log)].op = "send_text"
    /\ log[Len(log)].at \in {"st_bulk", "ap_bulk"}

\* C21: once the gate has passed, the only failure that makes set_text or
\* append_text end without Ok is a failed bulk injection: a call that has
\* ended returned Ok unless its last OS call is the bulk injection, and a
\* call that has gone past the bulk injection (failed key sequences, failed
\* reads, failed word, space or character injections, a final mismatch) is
\* never aborted.
C21_OnlyBulkFailureAborts ==
    (PassedGate /\ pc = "done") => (result = "Ok" \/ (result = "Err" /\ BulkFailed))

\* C22: when the bulk injection of append_text is delivered unaltered at
\* the caret, the call is verified on the first try: it sends no backspace
\* and no word, character or space injection and returns Ok after the first
\* verification, for every AppendPosition and every caret position.  Stated
\* for the elements whose text can be read back and the runs in which every
\* key sequence acted and every read succeeded.
C22_FaithfulBulkVerified ==
    (/\ call.op = "append_text" /\ PassedGate /\ Readable(elem)
     /\ hist.bulkFaithful /\ hist.faithful)
        => /\ hist.path # "corrected"
           /\ LogAt({"ap_backspace", "ap_word", "ap_char", "ap_space"}) = <<>>
           /\ pc = "done" => (result = "Ok" /\ hist.path = "bulk")

\* the correction pass of append_text is about to start: the verification
\* failed, the backspaces are sent and no word has been sent yet
CorrectionStarts ==
    /\ call.op = "append_text"
    /\ hist.path = "corrected"
    /\ pc \in {"ap_word", "ap_end"}
    /\ LogAt({"ap_word", "ap_char", "ap_space"}) = <<>>

\* C23: when the verification of append_text fails, it sends as many
\* backspaces as characters the bulk attempt inserted, so that the text is
\* the text before the append when the correction pass starts and the
\* appended string is not left in the element twice; also for elements whose
\* text cannot be read back and for text with multi-byte characters.  Stated
\* for the runs in which every key sequence acted and every read succeeded.
C23_RemovesWhatWasInserted ==
    (CorrectionStarts /\ hist.faithful) => content = hist.content0

\* the OS calls of a set_text, as the log holds them, are in step order
InStepOrder ==
    \A i \in 1..(Len(log) - 1) : StepRank(log[i].at) <= StepRank(log[i + 1].at)

\* some OS call before the i-th was made at the step at
Earlier(i, at) == \E j \in 1..(i - 1) : log[j].at = at

\* C24: in every set_text run that passes the gate the clear key sequence
\* (Ctrl+A, Delete) is sent before any text injection, the bulk injection
\* precedes the first verification read, the correction pass is entered only
\* after a verification read that differs from the target and begins with a
\* second clear, and the final verification read comes after the last
\* correction injection and ends the call.
C24_SetTextStepOrder ==
    /\ [](call.op = "set_text" =>
            /\ InStepOrder
            /\ \A i \in DOMAIN log :
                 /\ log[i].op = "send_text" => Earlier(i, "st_clear")
                 /\ log[i].at = "st_clear" => log[i].keys = "{Ctrl}a{Delete}"
                 /\ log[i].at = "st_verify" => log[i - 1].at = "st_bulk"
                 /\ log[i].at = "st_clear2"
                      => log[i].keys = "{Ctrl}a{Delete}" /\ log[i - 1].at = "st_verify"
                 /\ log[i].at \in {"st_word", "st_char", "st_space"}
                      => Earlier(i, "st_clear2")
                 /\ log[i].at = "st_final" => (i = Len(log) /\ pc = "done")
            /\ (pc = "done" /\ hist.path = "corrected") => log[Len(log)].at = "st_final")
    /\ [][(pc = "st_verify" /\ pc' = "st_clear2")
            => \E ok \in BOOLEAN :
                 /\ hist'.faithful = (hist.faithful /\ ok)
                 /\ get_text_or_default(ok) # call.text]_vars

\* C24 witness: a set_text has returned after a correction pass that sent a
\* word, a character and a space, and after its final verification read.
C24_Witness ==
    /\ Done("set_text")
    /\ hist.path = "corrected"
    /\ LogAt({"st_word"}) # <<>>
    /\ LogAt({"st_char"}) # <<>>
    /\ LogAt({"st_space"}) # <<>>
    /\ log[Len(log)].at = "st_final"

\* C28: if set_text returns an error, the element's text is the same as
\* before the call.
C28_ErrorLeavesText ==
    (Done("set_text") /\ result = "Err") => content = hist.content0

\* C29: in append_text the offset at which the text read after the
\* injection is cut, the byte length of the text read before it, falls on a
\* character boundary of the text read after, so the extraction of what was
\* appended never aborts the call, also with multi-byte characters and a
\* caret that was not at the end.
C29_CutOnCharBoundary ==
    call.op = "append_text"
        => /\ result # "Panic"
           /\ pc = "ap_verify"
                => actually_appended(local.text_before, get_text(elem, content))
                       # <<"PANIC">>

-----------------------------------------------------------------------------
(* Properties of the query engine *)

\* the elements of the tree, the root first, depth first, in pre-order
PreOrder(t) == <<1>> \o DescendantNodes(t, 1)

\* the elements of a list of handles
NodesOf(list) == [k \in DOMAIN list |-> list[k].node]

\* C6: find_all(q, root) over a finite tree returns Ok with exactly the
\* elements of the tree, the root included, for which q matches, in
\* depth-first pre-order; also for trees that contain leaf elements.
C6_FindAllPreOrder ==
    qres.op = "find_all"
        => LET Matching(i) ==
                   matches(tree, query, Handle(i, qres.walker)).val = "true"
           IN  /\ qres.val = "ok"
               /\ NodesOf(qres.list) = SelectSeq(PreOrder(tree), Matching)

\* C7: find_all(And([q]), root) returns the same list as find_all(q, root);
\* find_all(Or([q1, q2]), root) contains every element of find_all(q1, root)
\* and of find_all(q2, root); find_all(Not(q), root) and find_all(q, root)
\* share no element.
C7_FindAllAlgebra ==
    qres.op = "find_all"
        => LET root == Handle(1, qres.walker)
               Of(i) == find_all(tree, query.qs[i], root)
           IN  /\ (query.kind = "And" /\ Len(query.qs) = 1)
                    => qres.val = "ok" /\ Of(1).ok /\ qres.list = Of(1).val
               /\ (query.kind = "Or" /\ Len(query.qs) = 2)
                    => /\ qres.val = "ok" /\ Of(1).ok /\ Of(2).ok
                       /\ Range(Of(1).val) \cup Range(Of(2).val) \subseteq Range(qres.list)
               /\ query.kind = "Not"
                    => /\ qres.val = "ok" /\ Of(1).ok
                       /\ Range(Of(1).val) \cap Range(qres.list) = {}

\* what the evaluations of the sub-queries 1..k of qs on e call, in order
RECURSIVE EvalsUpTo(_, _, _, _)
EvalsUpTo(t, qs, e, k) ==
    IF k = 0 THEN <<>>
    ELSE EvalsUpTo(t, qs, e, k - 1) \o matches(t, qs[k], e).evals

\* C8: matches evaluates And(qs) left to right and answers false at the
\* first sub-query that does not match, without evaluating the rest;
\* evaluates Or(qs) left to right and answers true at the first sub-query
\* that matches, without evaluating the rest; answers the negation for
\* Not(q); answers true for And([]) and false for Or([]).
C8_MatchesShortCircuit ==
    (qres.op = "matches" /\ query.kind \in {"And", "Or", "Not"})
        => LET e == Handle(1, qres.walker)
               Sub(i) == matches(tree, query.qs[i], e)
               here == <<[query |-> query, node |-> 1]>>
               stop == IF query.kind = "And" THEN "false" ELSE "true"
               Stops == {i \in DOMAIN query.qs : Sub(i).val # Negate(stop)}
               first == CHOOSE i \in Stops : \A j \in Stops : i <= j
           IN  IF query.kind = "Not"
               THEN Sub(1).val # "err" => qres.val = Negate(Sub(1).val)
               ELSE IF Stops = {}
               THEN /\ qres.val = Negate(stop)
                    /\ qres.evals = here \o EvalsUpTo(tree, query.qs, e, Len(query.qs))
               ELSE Sub(first).val = stop
                        => /\ qres.val = stop
                           /\ qres.evals = here \o EvalsUpTo(tree, query.qs, e, first)

\* C8 witness: an And of two sub-queries answered false on an element that
\* the first sub-query does not match and the second one does.
C8_Witness ==
    /\ qres.op = "matches"
    /\ query.kind = "And"
    /\ Len(query.qs) = 2
    /\ matches(tree, query.qs[1], Handle(1, qres.walker)).val = "false"
    /\ matches(tree, query.qs[2], Handle(1, qres.walker)).val = "true"
    /\ qres.val = "false"

\* C9: Window.find_elements(And([q1, ..., qn])) returns only elements that
\* every qi finds in the window, and no element when some qi finds none.
C9_FindElementsAnd ==
    (qres.op = "find_elements" /\ query.kind = "And")
        => \A i \in DOMAIN query.qs :
               LET found == find_elements(tree, query.qs[i])
               IN  found.ok
                       => /\ Range(qres.list) \subseteq Range(found.val)
                          /\ found.val = <<>> => qres.list = <<>>

\* C10: every element returned by Window.find_elements(ByType(t)), and the
\* element returned by find_element_by_type(t), has get_type() equal to t.
C10_ByTypeReturnsType ==
    (qres.op \in {"find_elements", "find_element_by_type"} /\ query.kind = "ByType")
        => \A k \in DOMAIN qres.list : get_type(tree, qres.list[k]) = query.a

\* C11: for q = ByProperty(k, v) and for q = Not(q'), Window.find_elements(q)
\* returns exactly the descendants d of the window element for which
\* matches(q, d) is true, whatever the control type of d.
C11_FindElementsAgreesWithMatches ==
    (qres.op = "find_elements" /\ query.kind \in {"ByProperty", "Not"})
        => LET Matching ==
                   {d \in Range(DescendantNodes(tree, 1)) :
                        matches(tree, query, Handle(d, FALSE)).val = "true"}
           IN  /\ qres.val = "ok"
               /\ Range(NodesOf(qres.list)) = Matching

\* C25: matches(Descendant(q), e) is true exactly when q matches some
\* element strictly below e (child, grandchild, ...), never merely because e
\* itself matches q, and it is false, not an error, when e or the
\* non-matching elements below it have no children.
C25_DescendantStrictlyBelow ==
    (qres.op = "matches" /\ query.kind = "Descendant")
        => qres.val = Bool(\E n \in Range(DescendantNodes(tree, 1)) :
                             matches(tree, query.qs[1], Handle(n, qres.walker)).val = "true")

\* C26: get_children on an element created without a tree walker returns
\* the element's direct children, through the one-shot all-children query,
\* whenever the element has at least one child.
C26_ChildrenWithoutWalker ==
    (qres.op = "get_children" /\ ~qres.walker /\ ChildNodes(tree, 1) # <<>>)
        => /\ qres.val = "ok"
           /\ NodesOf(qres.list) = ChildNodes(tree, 1)

\* C30: for every element e and type string t, ByType(t) matches e exactly
\* when e.get_type() returns t, also for an element whose OS control-type id
\* is not a recognised control type.
C30_ByTypeAgreesWithGetType ==
    (qres.op = "matches" /\ query.kind = "ByType")
        => (qres.val = "true" <=> get_type(tree, Handle(1, qres.walker)) = query.a)

-----------------------------------------------------------------------------
(* Properties of the threads *)

\* the threads that are inside an operation
InProgress == {t \in Threads : thr[t].pc \notin {"idle", "has_element"}}

\* C12: all capability operations are serialized through one lock: at no
\* time are two operations in progress at once, the set_text sequences of
\* different threads on elements of one automation session included.
C12_OneOperationAtATime == Cardinality(InProgress) <= 1

\* C27: no thread tries to acquire the automation mutex while it holds it:
\* in the Not, Child, Descendant, Parent and Ancestor branches of
\* Window::find_elements the nested evaluation of matches, get_children
\* included, never waits for the lock its own thread holds, so every
\* find_elements call that took the lock returns and releases it.
C27_NoSelfDeadlock ==
    /\ [](\A t \in Threads : thr[t].pc \in {"fe_lock", "gc_lock"} => lock # t)
    /\ \A t \in Threads : (lock = t) ~> (lock # t /\ thr[t].pc = "has_element")

\* C27 witness: a thread holds the lock in the Descendant branch and the
\* nested matches has called get_children, while the other thread waits
\* for the lock.
C27_Witness ==
    /\ lock = 1
    /\ thr[1].pc = "gc_automation"
    /\ query[1].kind = "Descendant"
    /\ thr[2].pc = "fe_lock"

-----------------------------------------------------------------------------
(* Properties of the single operations *)

\* C15: get_text returns the value-pattern value when that is non-empty,
\* otherwise the text-pattern document text when that is non-empty, otherwise
\* the empty string; for an element that has no text it returns Ok with the
\* empty string and never an error.
C15_GetTextFallback ==
    (arg.op = "get_text" /\ ret.done)
        => LET value == IF arg.hasValue /\ arg.valueOk THEN arg.value ELSE <<>>
               text == IF arg.hasText /\ arg.textOk THEN arg.text ELSE <<>>
           IN  /\ value # <<>> => ret.ok /\ ret.val = value
               /\ (value = <<>> /\ text # <<>>) => ret.ok /\ ret.val = text
               /\ (value = <<>> /\ text = <<>>) => ret.ok /\ ret.val = <<>>

\* the nodes of the snapshot below and including n, which is at depth d:
\* for each its live element, its depth and the live elements of its children
RECURSIVE Flatten(_, _)
Flatten(n, d) ==
    {[node |-> n.node, depth |-> d,
      children |-> [k \in DOMAIN n.children |-> n.children[k].node]]}
        \cup UNION {Flatten(n.children[k], d + 1) : k \in DOMAIN n.children}

C19_ClickFallback ==
    arg.op = "click"
        => LET bounds == arg.rectOk /\ arg.convertOk
               tried == Range(ret.val)
           IN  /\ "click" \in tried <=> (bounds /\ ret.at # "direct" /\ ret.at # "start")
               /\ "click" \in tried => ret.val[1] = "click"
               /\ "get_pattern" \in tried => (~bounds \/ ~arg.clickOk)
               /\ "invoke" \in tried => "get_pattern" \in tried /\ arg.hasInvoke
               /\ ret.done
                    => (ret.ok <=> \/ bounds /\ arg.clickOk
                                   \/ /\ ~bounds \/ ~arg.clickOk
                                      /\ arg.hasInvoke /\ arg.invokeOk)

\* C19 witness: click returned Ok from the invoke pattern after the direct
\* click had failed.
C19_Witness ==
    /\ arg.op = "click"
    /\ ret.done
    /\ ret.ok
    /\ ret.val = <<"click", "get_pattern", "invoke">>

\* C20: each Python bridge method (name, control_type, is_enabled, get_text,
\* get_properties, set_text, append_text, focused_window) yields the same
\* result as the native operation it wraps and raises an error exactly when
\* the native operation returns an error.
C20_BridgeSameAsNative ==
    (arg.op = "bridge" /\ ret.done)
        => /\ ret.ok <=> arg.native.ok
           /\ ret.ok => ret.val = arg.native.val

====
